---- MODULE Spec2Model ----
(***************************************************************************)
(* Model of render_images.py (CLEVR image generation): main's loop over    *)
(* output indices, render_scene (directions, object placement, the render  *)
(* retry loop, the metadata write) and compute_all_relationships.          *)
(*                                                                         *)
(* Numbers.  Coordinates are integers in scene units.  A direction is an   *)
(* integer 3-vector holding DirScale times the components of a Blender     *)
(* vector, so a unit vector has squared length DirScale^2 and a dot        *)
(* product of a coordinate difference with a direction is DirScale times   *)
(* the real one.  eps is held in the same unit: the default 0.2 is         *)
(* EpsDefault = 0.2 * DirScale.  List indices are 0-based as in Python;    *)
(* a Python list is a function on 0..n-1.                                  *)
(***************************************************************************)
EXTENDS Integers, Sequences, FiniteSets, TLC

VARIABLES
    pc,               \* position of the program
    args,             \* the parsed command line (start_index, num_images, ...)
    output_index,     \* main's loop variable
    num_objects,      \* main: random.randint(min_objects, max_objects)
    camera,           \* the camera's local axes in world space (matrix_world)
    scene_struct,     \* render_scene's scene record
    objects,          \* add_random_objects: the objects placed so far
    num_tries,        \* add_random_objects: rejected samples for the current object
    place_calls,      \* how many times render_scene called add_random_objects
    restarted,        \* add_random_objects discarded its list in this scene
    eps,              \* the eps argument of compute_all_relationships
    all_relationships,\* what compute_all_relationships last returned
    render_failures,  \* render calls of the current scene that raised
    render_ok,        \* the last render call of the current scene returned
    scene_at_render,  \* the scene record when the render loop was entered
    started,          \* output indices for which render_scene was entered, in order
    written,          \* output indices whose scene_path was written, in order
    scene_file        \* content of the current index's scene_path (NoScene: not written)

vars == <<pc, args, output_index, num_objects, camera, scene_struct, objects,
          num_tries, place_calls, restarted, eps, all_relationships,
          render_failures, render_ok, scene_at_render, started, written, scene_file>>

----------------------------------------------------------------------------
(* Bounds of the model *)

MaxObjects == 2       \* args.max_objects of the modelled runs
MaxImages == 2        \* largest args.num_images / args.start_index
MaxRetries == 2       \* args.max_retries of the modelled runs
MaxAttempts == 2      \* failed render calls followed per scene
MaxFnObjects == 2     \* longest object list handed to compute_all_relationships alone

DirScale == 5

EpsDefault == (2 * DirScale) \div 10

EpsValues == {-1, 0, EpsDefault, 2 * EpsDefault}

Colors == {"red", "blue"}

\* 3d_coords the modelled objects may have
Coords3d == {<<0, 0, 0>>, <<0, 1, 0>>, <<0, 2, 0>>, <<1, 0, 0>>, <<1, 1, 0>>, <<0, 1, 1>>}

HorizontalNames == {"behind", "front", "left", "right"}
DirectionNames == HorizontalNames \cup {"above", "below"}

----------------------------------------------------------------------------
(* Vectors *)

Zero3 == <<0, 0, 0>>

Neg(v) == <<-v[1], -v[2], -v[3]>>

Sub(a, b) == <<a[1] - b[1], a[2] - b[2], a[3] - b[3]>>

Dot(a, b) == a[1] * b[1] + a[2] * b[2] + a[3] * b[3]

Cross(a, b) == <<a[2] * b[3] - a[3] * b[2],
                 a[3] * b[1] - a[1] * b[3],
                 a[1] * b[2] - a[2] * b[1]>>

\* The integer vectors that stand for unit vectors.
UnitVecs == {v \in (-DirScale..DirScale) \X (-DirScale..DirScale) \X (-DirScale..DirScale) :
                Dot(v, v) = DirScale * DirScale}

\* Vector.normalized(): the unit vector of v's direction; the zero vector
\* stays the zero vector.
Normalized(v) ==
    IF v = Zero3 THEN Zero3
    ELSE CHOOSE u \in UnitVecs : Cross(u, v) = Zero3 /\ Dot(u, v) > 0

\* v.project(n) = (v.n / n.n) n.  Both operators below are the real vectors
\* times the positive factor n.n, which normalized() removes again.
\* ProjectOnto(v, n) stands for v.project(n), RejectFrom(v, n) for
\* v - v.project(n).
ProjectOnto(v, n) == <<Dot(v, n) * n[1], Dot(v, n) * n[2], Dot(v, n) * n[3]>>

RejectFrom(v, n) == <<Dot(n, n) * v[1] - Dot(v, n) * n[1],
                      Dot(n, n) * v[2] - Dot(v, n) * n[2],
                      Dot(n, n) * v[3] - Dot(v, n) * n[3]>>

----------------------------------------------------------------------------
(* compute_all_relationships *)

\* sorted(list(S)) for a set of integers: the ascending sequence of S.
RECURSIVE Sorted(_)
Sorted(S) ==
    IF S = {} THEN <<>>
    ELSE LET m == CHOOSE x \in S : \A y \in S : x <= y
         IN <<m>> \o Sorted(S \ {m})

NumObjs(objs) == Cardinality(DOMAIN objs)

\* Mutants of line 146: no skip at all; a skip on one attribute.
SkipPairNever(obj1, obj2) == FALSE

SkipPairByColor(obj1, obj2) == obj1.color = obj2.color

\* line 146: "if obj1 == obj2: continue" compares the two records by value.
SkipPair(obj1, obj2) == obj1 = obj2

\* Mutant of line 148: the difference taken the other way round.
IsRelatedReversed(obj1, obj2, direction_vec, e) ==
    Dot(Sub(obj1.coords3d, obj2.coords3d), direction_vec) > e

\* lines 147-150: dot of (coords2 - coords1) with the direction, against eps.
IsRelated(obj1, obj2, direction_vec, e) ==
    Dot(Sub(obj2.coords3d, obj1.coords3d), direction_vec) > e

\* lines 144-151: the set "related" of object i.
Related(objs, i, direction_vec, e) ==
    {j \in DOMAIN objs : ~SkipPair(objs[i], objs[j])
                         /\ IsRelated(objs[i], objs[j], direction_vec, e)}

\* line 140: above and below get no entry.
RelationNames(directions) == {name \in DOMAIN directions : name \notin {"above", "below"}}

compute_all_relationships(scene, e) ==
    [name \in RelationNames(scene.directions) |->
        [i \in DOMAIN scene.objects |->
            Sorted(Related(scene.objects, i, scene.directions[name], e))]]

----------------------------------------------------------------------------
(* Python lists as functions on 0..n-1 *)

EmptyList == [k \in {} |-> 0]

ListAppend(l, x) == [k \in 0..NumObjs(l) |-> IF k < NumObjs(l) THEN l[k] ELSE x]

\* The lists of at most n elements of S.
RECURSIVE ListsUpTo(_, _)
ListsUpTo(S, n) ==
    IF n = 0 THEN {EmptyList}
    ELSE LET shorter == ListsUpTo(S, n - 1)
         IN shorter \cup {ListAppend(l, x) : l \in {m \in shorter : NumObjs(m) = n - 1}, x \in S}

\* The object records: of an ObjectRecord's fields the program reads
\* 3d_coords only; color stands for the other attributes.
ObjectRecords == [coords3d : Coords3d, color : Colors]

----------------------------------------------------------------------------
(* render_scene, lines 72-107: the scene record and its directions *)

\* plane.data.vertices[0].normal of the plane added at line 80
plane_normal == <<0, 0, 1>>

\* The camera's local axes in world space: behind is matrix_world's rotation
\* of (0,0,-1), left of (-1,0,0), up of (0,1,0), each up to a positive
\* factor.  The first pose is the base scene's; the last looks straight down.
BasePose == [behind |-> <<0, 4, -3>>, left |-> <<-1, 0, 0>>, up |-> <<0, 3, 4>>]

CameraPoses == {BasePose,
                [behind |-> <<12, 16, -15>>, left |-> <<-4, 3, 0>>, up |-> <<9, 12, 20>>],
                [behind |-> <<0, 0, -1>>, left |-> <<-1, 0, 0>>, up |-> <<0, 1, 0>>]}

\* lines 91-96
plane_behind(cam) == Normalized(RejectFrom(cam.behind, plane_normal))
plane_left(cam) == Normalized(RejectFrom(cam.left, plane_normal))
plane_up(cam) == Normalized(ProjectOnto(cam.up, plane_normal))

\* Mutants of lines 102-107: a direction stored without its negation.
DirectionsFromFrontNotNegated(behind, left, up) ==
    [name \in DirectionNames |->
        CASE name \in {"behind", "front"} -> behind
          [] name = "left" -> left
          [] name = "right" -> Neg(left)
          [] name = "above" -> up
          [] name = "below" -> Neg(up)]

DirectionsFromBelowNotNegated(behind, left, up) ==
    [name \in DirectionNames |->
        CASE name = "behind" -> behind
          [] name = "front" -> Neg(behind)
          [] name = "left" -> left
          [] name = "right" -> Neg(left)
          [] name \in {"above", "below"} -> up]

\* lines 102-107
DirectionsFrom(behind, left, up) ==
    [name \in DirectionNames |->
        CASE name = "behind" -> behind
          [] name = "front" -> Neg(behind)
          [] name = "left" -> left
          [] name = "right" -> Neg(left)
          [] name = "above" -> up
          [] name = "below" -> Neg(up)]

Directions(cam) == DirectionsFrom(plane_behind(cam), plane_left(cam), plane_up(cam))

\* lines 72-77
NewSceneStruct(index) ==
    [image_index |-> index, objects |-> EmptyList,
     directions |-> [name \in {} |-> Zero3], relationships |-> [name \in {} |-> EmptyList]]

\* Mutant of line 124: the list stored without its last object.
AssignObjectsDropLast(scene, objs) ==
    [scene EXCEPT !.objects = [k \in 0..(NumObjs(objs) - 2) |-> objs[k]]]

\* line 124
AssignObjects(scene, objs) == [scene EXCEPT !.objects = objs]

\* line 125
AssignRelationships(scene, e) ==
    [scene EXCEPT !.relationships = compute_all_relationships(scene, e)]

----------------------------------------------------------------------------
(* add_random_objects (object placement and the visibility check) *)

\* min_dist = 0.25 and margin = 0.4 in the model's units
MinDistSqTimes16 == 1
MarginScaled == (4 * DirScale) \div 10

\* A sampled position p conflicts with a placed object q: closer than
\* min_dist in x,y, or within margin of it along a horizontal direction.
Conflicts(p, q, directions) ==
    LET dx == p[1] - q[1]
        dy == p[2] - q[2]
    IN \/ 16 * (dx * dx + dy * dy) < MinDistSqTimes16
       \/ \E name \in HorizontalNames :
             LET m == dx * directions[name][1] + dy * directions[name][2]
             IN 0 < m /\ m < MarginScaled

Rejected(p, objs, directions) ==
    \E k \in DOMAIN objs : Conflicts(p, objs[k].coords3d, directions)

----------------------------------------------------------------------------
(* The program: main, render_scene *)

NoScene == NewSceneStruct(0)

NoRelationships == [name \in {} |-> EmptyList]

\* The command lines of the modelled runs.
ArgsSet == [start_index : 0..MaxImages, num_images : 0..MaxImages,
            min_objects : {1}, max_objects : {MaxObjects},
            max_retries : {MaxRetries}, camera_jitter : {0, 1}]

Init ==
    /\ args \in ArgsSet
    /\ pc = "main"
    /\ output_index = args.start_index
    /\ num_objects = 0
    /\ camera = BasePose
    /\ scene_struct = NoScene
    /\ objects = EmptyList
    /\ num_tries = 0
    /\ place_calls = 0
    /\ restarted = FALSE
    /\ eps = EpsDefault
    /\ all_relationships = NoRelationships
    /\ render_failures = 0
    /\ render_ok = FALSE
    /\ scene_at_render = NoScene
    /\ started = <<>>
    /\ written = <<>>
    /\ scene_file = NoScene

\* Mutant of line 27: the range runs one index too far.
RangeContinuesInclusive(index, stop) == index <= stop

\* line 27: range(start_index, num_images) has a next value.
RangeContinues(index, stop) == index < stop

\* lines 27-42: the next output_index of range(start_index, num_images), a
\* random num_objects, and the call of render_scene with the paths of that
\* index: a new frame (no locals yet) and a scene_path not yet written.
MainNextImage ==
    /\ pc = "main"
    /\ RangeContinues(output_index, args.num_images)
    /\ num_objects' \in args.min_objects..args.max_objects
    /\ pc' = "render_scene"
    /\ camera' = BasePose
    /\ scene_struct' = NoScene
    /\ objects' = EmptyList
    /\ num_tries' = 0
    /\ place_calls' = 0
    /\ restarted' = FALSE
    /\ all_relationships' = NoRelationships
    /\ render_failures' = 0
    /\ render_ok' = FALSE
    /\ scene_at_render' = NoScene
    /\ scene_file' = NoScene
    /\ UNCHANGED <<args, output_index, eps, started, written>>

\* line 27: the range is exhausted and main returns.
MainReturn ==
    /\ pc = "main"
    /\ ~RangeContinues(output_index, args.num_images)
    /\ pc' = "done"
    /\ UNCHANGED <<restarted, args, output_index, num_objects, camera, scene_struct, objects,
                   num_tries, place_calls, eps, all_relationships, render_failures,
                   render_ok, scene_at_render, started, written, scene_file>>

\* lines 45-121: a fresh scene record, the camera jitter, the six
\* directions, and the call of add_random_objects.
SceneSetup ==
    /\ pc = "render_scene"
    /\ camera' \in (IF args.camera_jitter > 0 THEN CameraPoses ELSE {BasePose})
    /\ scene_struct' = [NewSceneStruct(output_index) EXCEPT !.directions = Directions(camera')]
    /\ started' = Append(started, output_index)
    /\ objects' = EmptyList
    /\ num_tries' = 0
    /\ place_calls' = 1
    /\ render_failures' = 0
    /\ render_ok' = FALSE
    /\ pc' = "place"
    /\ UNCHANGED <<restarted, args, output_index, num_objects, eps, all_relationships,
                   scene_at_render, written, scene_file>>

\* add_random_objects: a sampled position is accepted and the object placed.
PlaceAccept ==
    /\ pc = "place"
    /\ NumObjs(objects) < num_objects
    /\ num_tries < args.max_retries
    /\ \E o \in ObjectRecords :
          /\ ~Rejected(o.coords3d, objects, scene_struct.directions)
          /\ objects' = ListAppend(objects, o)
    /\ num_tries' = 0
    /\ UNCHANGED <<restarted, pc, args, output_index, num_objects, camera, scene_struct,
                   place_calls, eps, all_relationships, render_failures, render_ok,
                   scene_at_render, started, written, scene_file>>

\* add_random_objects: a sampled position is rejected and sampled again.
PlaceReject ==
    /\ pc = "place"
    /\ NumObjs(objects) < num_objects
    /\ num_tries < args.max_retries
    /\ \E p \in Coords3d : Rejected(p, objects, scene_struct.directions)
    /\ num_tries' = num_tries + 1
    /\ UNCHANGED <<restarted, pc, args, output_index, num_objects, camera, scene_struct, objects,
                   place_calls, eps, all_relationships, render_failures, render_ok,
                   scene_at_render, started, written, scene_file>>

\* add_random_objects: max_retries is exhausted for one object; all objects
\* are discarded and placement starts again from the first.
PlaceRestart ==
    /\ pc = "place"
    /\ NumObjs(objects) < num_objects
    /\ ~(num_tries < args.max_retries)
    /\ restarted' = TRUE
    /\ objects' = EmptyList
    /\ num_tries' = 0
    /\ UNCHANGED <<pc, args, output_index, num_objects, camera, scene_struct,
                   place_calls, eps, all_relationships, render_failures, render_ok,
                   scene_at_render, started, written, scene_file>>

\* add_random_objects: an object shows fewer than min_pixels_per_object
\* pixels (the renderer's answer); placement starts again.
PlaceUnderVisible ==
    /\ pc = "place"
    /\ NumObjs(objects) = num_objects
    /\ objects # EmptyList
    /\ restarted' = TRUE
    /\ objects' = EmptyList
    /\ num_tries' = 0
    /\ UNCHANGED <<pc, args, output_index, num_objects, camera, scene_struct,
                   place_calls, eps, all_relationships, render_failures, render_ok,
                   scene_at_render, started, written, scene_file>>

\* add_random_objects returns its list (line 121); lines 124-125 store
\* it and the relationships in the scene record.
PlaceReturn ==
    /\ pc = "place"
    /\ NumObjs(objects) = num_objects
    /\ scene_struct' = AssignRelationships(AssignObjects(scene_struct, objects), eps)
    /\ all_relationships' = scene_struct'.relationships
    /\ scene_at_render' = scene_struct'
    /\ pc' = "render"
    /\ UNCHANGED <<restarted, args, output_index, num_objects, camera, objects, num_tries,
                   place_calls, eps, render_failures, render_ok, started, written,
                   scene_file>>

\* Mutant of lines 126-131: the except clause leaves the loop.
AfterExceptionBreaks == "dump"

\* lines 130-131 and 126: after the except clause the while loop runs again.
AfterException == "render"

\* Mutant of lines 126-131: a render failure restarts the scene at placement.
RenderRaisesRestartsScene ==
    /\ pc = "render"
    /\ render_failures < MaxAttempts
    /\ render_failures' = render_failures + 1
    /\ render_ok' = FALSE
    /\ pc' = "place"
    /\ objects' = EmptyList
    /\ num_tries' = 0
    /\ place_calls' = place_calls + 1
    /\ UNCHANGED <<restarted, args, output_index, num_objects, camera, scene_struct,
                   eps, all_relationships, scene_at_render, started, written, scene_file>>

\* lines 127-131: bpy.ops.render.render raises; the exception is printed
\* and the loop runs again.
RenderRaises ==
    /\ pc = "render"
    /\ render_failures < MaxAttempts
    /\ render_failures' = render_failures + 1
    /\ render_ok' = FALSE
    /\ pc' = AfterException
    /\ UNCHANGED <<restarted, args, output_index, num_objects, camera, scene_struct, objects,
                   num_tries, place_calls, eps, all_relationships, scene_at_render,
                   started, written, scene_file>>

\* lines 127-129: the render call returns; break.
RenderReturns ==
    /\ pc = "render"
    /\ render_ok' = TRUE
    /\ pc' = "dump"
    /\ UNCHANGED <<restarted, render_failures, args, output_index, num_objects, camera, scene_struct, objects,
                   num_tries, place_calls, eps, all_relationships, scene_at_render,
                   started, written, scene_file>>

\* lines 133-134: json.dump(scene_struct) to scene_path; render_scene
\* returns and main's loop moves on.
DumpScene ==
    /\ pc = "dump"
    /\ scene_file' = scene_struct
    /\ written' = Append(written, output_index)
    /\ output_index' = output_index + 1
    /\ pc' = "main"
    /\ UNCHANGED <<restarted, args, num_objects, camera, scene_struct, objects, num_tries,
                   place_calls, eps, all_relationships, render_failures, render_ok,
                   scene_at_render, started>>

Next ==
    \/ MainNextImage
    \/ MainReturn
    \/ SceneSetup
    \/ PlaceAccept
    \/ PlaceReject
    \/ PlaceRestart
    \/ PlaceUnderVisible
    \/ PlaceReturn
    \/ RenderRaises
    \/ RenderReturns
    \/ DumpScene

Spec == Init /\ [][Next]_vars

----------------------------------------------------------------------------
(* compute_all_relationships called on its own, on any scene record *)

\* Direction vectors of the scenes handed to the function alone.
FnVecs == {<<0, 5, 0>>, <<3, 4, 0>>, <<0, 3, 4>>}

FnScenes ==
    {[image_index |-> 0, objects |-> l,
      directions |-> DirectionsFrom(b, lf, <<0, 0, 5>>),
      relationships |-> NoRelationships] :
        l \in ListsUpTo(ObjectRecords, MaxFnObjects), b \in FnVecs, lf \in FnVecs}

FnArgs == [start_index |-> 0, num_images |-> 0, min_objects |-> 1,
           max_objects |-> MaxObjects, max_retries |-> MaxRetries, camera_jitter |-> 0]

InitFnCommon ==
    /\ args = FnArgs
    /\ pc = "call"
    /\ output_index = 0
    /\ num_objects = 0
    /\ camera = BasePose
    /\ scene_struct \in FnScenes
    /\ objects = EmptyList
    /\ num_tries = 0
    /\ place_calls = 0
    /\ restarted = FALSE
    /\ all_relationships = NoRelationships
    /\ render_failures = 0
    /\ render_ok = FALSE
    /\ scene_at_render = NoScene
    /\ started = <<>>
    /\ written = <<>>
    /\ scene_file = NoScene

\* any eps
InitFn == InitFnCommon /\ eps \in EpsValues

\* the default eps (line 137), as in a call compute_all_relationships(scene)
InitFnDefault == InitFnCommon /\ eps = EpsDefault

\* lines 137-153: a call, the first or a repeated one, and its return value.
\* The function assigns to nothing but its own locals.
CallCompute ==
    /\ pc \in {"call", "returned"}
    /\ all_relationships' = compute_all_relationships(scene_struct, eps)
    /\ pc' = "returned"
    /\ UNCHANGED <<args, output_index, num_objects, camera, scene_struct, objects,
                   num_tries, place_calls, restarted, eps, render_failures, render_ok,
                   scene_at_render, started, written, scene_file>>

NextFn == CallCompute

SpecFn == InitFn /\ [][NextFn]_vars

SpecFnDefault == InitFnDefault /\ [][NextFn]_vars

----------------------------------------------------------------------------
(* Properties *)

Elems(seq) == {seq[k] : k \in 1..Len(seq)}

StrictlyAscending(seq) == \A k \in 1..(Len(seq) - 1) : seq[k] < seq[k + 1]

\* dot(position_j - position_i, directions[d]) of a scene record
DotOf(scene, i, j, d) ==
    Dot(Sub(scene.objects[j].coords3d, scene.objects[i].coords3d), scene.directions[d])

\* Whether j is listed in relationships[d][i] of a scene record
Listed(scene, d, i, j) == j \in Elems(scene.relationships[d][i])

\* The scene record as compute_all_relationships's return value fills it
Returned == [scene_struct EXCEPT !.relationships = all_relationships]

\* A scene record is committed: its metadata file has been written.
Committed == scene_file # NoScene

\* C1: for every scene, every eps, each horizontal direction d and every
\* object index i, relationships[d][i] is the ascending duplicate-free
\* sequence of exactly the indices j # i with
\* dot(position_j - position_i, directions[d]) > eps, and above and below
\* get no entry.
C1_ExactRelationships ==
    pc = "returned" =>
        /\ DOMAIN all_relationships = HorizontalNames
        /\ \A d \in HorizontalNames : \A i \in DOMAIN scene_struct.objects :
              /\ StrictlyAscending(all_relationships[d][i])
              /\ Elems(all_relationships[d][i])
                   = {j \in DOMAIN scene_struct.objects :
                         j # i /\ DotOf(scene_struct, i, j, d) > eps}

\* C2: the scene metadata of an output index is written only after a render
\* call for that scene has returned: whenever the file of the current index
\* exists, or is about to be written, the last render call returned, and
\* the file holds the scene that was rendered, under that index.
C2_WriteOnlyAfterRender ==
    /\ pc = "dump" => render_ok
    /\ Committed =>
          /\ render_ok
          /\ scene_file = scene_at_render
          /\ scene_file.image_index = written[Len(written)]

C2_Witness == Committed /\ render_failures = MaxAttempts /\ Len(written) = 2

\* C3: after a render call raised, the program is at the same render call
\* again; object placement was called once for the scene and the scene
\* record (objects, directions, relationships) is, at every retry and at the
\* write, the one from before the first render attempt.
C3_RetrySameRender ==
    /\ (render_failures > 0 /\ ~render_ok) => pc = "render"
    /\ (render_failures > 0 \/ render_ok) =>
          /\ place_calls = 1
          /\ scene_struct = scene_at_render
          /\ Committed => scene_file = scene_at_render

C3_Witness ==
    /\ Committed
    /\ render_failures = MaxAttempts
    /\ NumObjs(scene_file.objects) = MaxObjects
    /\ \E i, j \in DOMAIN scene_file.objects : Listed(scene_file, "left", i, j)

\* C4: relationships[d][i] never contains i and is a subset of
\* {0..N-1} \ {i}, for every direction d in the mapping and every object i.
C4_NoSelfRelation ==
    pc = "returned" =>
        \A d \in DOMAIN all_relationships : \A i \in DOMAIN all_relationships[d] :
            Elems(all_relationships[d][i])
                \subseteq (0..(NumObjs(scene_struct.objects) - 1)) \ {i}

\* two records equal by value, and an eps below zero, so that only the
\* skip of line 146 keeps an object out of its own list
C4_Witness ==
    /\ pc = "returned"
    /\ eps < 0
    /\ NumObjs(scene_struct.objects) = MaxFnObjects
    /\ \E d \in DOMAIN all_relationships : \E i \in DOMAIN all_relationships[d] :
          all_relationships[d][i] # <<>>

Opposite(d) ==
    CASE d = "front" -> "behind"
      [] d = "behind" -> "front"
      [] d = "left" -> "right"
      [] d = "right" -> "left"

NegatedPairs(directions) ==
    /\ directions["front"] = Neg(directions["behind"])
    /\ directions["right"] = Neg(directions["left"])
    /\ directions["below"] = Neg(directions["above"])

\* C7: in every scene record of render_scene the recorded directions are
\* all six, with front = -behind, right = -left and below = -above.
C7_OppositeDirections ==
    /\ pc \in {"place", "render", "dump"} =>
          /\ DOMAIN scene_struct.directions = DirectionNames
          /\ NegatedPairs(scene_struct.directions)
    /\ Committed =>
          /\ DOMAIN scene_file.directions = DirectionNames
          /\ NegatedPairs(scene_file.directions)

\* a committed scene of a jittered camera whose directions are off the axes
C7_Witness ==
    /\ Committed
    /\ camera # BasePose
    /\ scene_file.directions["behind"] = <<3, 4, 0>>
    /\ scene_file.directions["above"] = <<0, 0, 5>>

\* The scene record with every attribute but the positions erased
PositionsOnly(scene) ==
    [image_index |-> 0,
     objects |-> [k \in DOMAIN scene.objects |->
                    [coords3d |-> scene.objects[k].coords3d, color |-> "red"]],
     directions |-> scene.directions,
     relationships |-> NoRelationships]

C9_ConverseSymmetry ==
    \A scene \in {scene_struct, scene_file} :
        DOMAIN scene.relationships # {} =>
            \A i, j \in DOMAIN scene.objects :
                /\ Listed(scene, "behind", i, j) <=> Listed(scene, "front", j, i)
                /\ Listed(scene, "left", i, j) <=> Listed(scene, "right", j, i)

C9_Witness ==
    /\ Committed
    /\ \E i, j \in DOMAIN scene_file.objects :
          /\ Listed(scene_file, "behind", i, j)
          /\ Listed(scene_file, "right", i, j)
          /\ ~Listed(scene_file, "behind", j, i)

\* range(a, b) as a sequence
Range(a, b) == [k \in 1..(IF b > a THEN b - a ELSE 0) |-> a + k - 1]

\* C10: main generates one scene per output index from start_index to
\* num_images - 1, ascending and one at a time: a scene is started only
\* when the metadata of every scene before it has been written, and at the
\* end num_images - start_index scenes were generated, none when
\* start_index >= num_images.
C10_OneSceneAtATime ==
    /\ written = Range(args.start_index, output_index)
    /\ started = Range(args.start_index,
                        IF pc \in {"place", "render", "dump"} THEN output_index + 1
                                                               ELSE output_index)
    /\ output_index <= (IF args.num_images > args.start_index THEN args.num_images
                                                                ELSE args.start_index)
    /\ pc = "done" =>
          /\ written = Range(args.start_index, args.num_images)
          /\ started = written

C10_Witness ==
    /\ pc = "done"
    /\ args.start_index = 0
    /\ written = <<0, 1>>

====
